---- MODULE Spec2Model ----
(***************************************************************************)
(* A model of the credential store (api/client.py), the startup script     *)
(* (start.py), the auth header provider and the REST operations built on   *)
(* it (api/search_analytics.py, api/sitemaps.py, api/url_inspection.py).   *)
(*                                                                         *)
(* Times are whole seconds.  Python's None is the string "<None>" where a  *)
(* string is expected and [kind |-> "none"] where an object is expected.   *)
(***************************************************************************)
EXTENDS Integers, Sequences, FiniteSets, TLC

\* ------------------------------------------------------------------ bounds
\* The clock takes the values 0, ClockStep, ..., MaxClock * ClockStep.
MaxClock == 2
ClockStep == 250
\* batch_inspect_urls is given at most MaxUrls URLs.
MaxUrls == 3
\* A DataFrame handed to sort_values has at most MaxRows rows, each with
\* 0..MaxClicks clicks.
MaxRows == 3
MaxClicks == 2

\* ------------------------------------------------------- program constants
\* client.py:95  "if remaining < 300"
REFRESH_MARGIN == 300
\* utils/constants.py:36
MAX_ROWS_PER_REQUEST == 25000
\* utils/constants.py:41
CACHE_TTL == 300

\* ------------------------------------------------------------- data values
NoneStr == "<None>"
NoneObj == [kind |-> "none"]

\* Python truthiness of an optional string (None and "" are falsy).
Truthy(s) == s # NoneStr /\ s # ""

\* The "expiry" member of a JSON object: absent, a value datetime.fromisoformat
\* rejects, an ISO-8601 text without offset, or one with a UTC offset.
\* local is the wall-clock reading, offset the UTC offset, both in seconds.
ExpiryMissing == [fmt |-> "missing", local |-> 0, offset |-> 0]
ExpiryInvalid == [fmt |-> "invalid", local |-> 0, offset |-> 0]
IsoNaive(t) == [fmt |-> "naive", local |-> t, offset |-> 0]
IsoAware(t, off) == [fmt |-> "aware", local |-> t, offset |-> off]

\* A JSON value as json.loads returns it.
JsonMalformed == [kind |-> "malformed"]
JsonNull == [kind |-> "null"]
JsonArray == [kind |-> "array"]
JsonObject(tok, rt, cid, sec, exp) ==
    [kind |-> "object", token |-> tok, refresh_token |-> rt,
     client_id |-> cid, client_secret |-> sec, expiry |-> exp]

\* A text: the JSON it spells and whether control characters (NUL, VT, ...)
\* are embedded in it.
Text(ctrl, json) == [kind |-> "text", ctrl |-> ctrl, json |-> json]
FileMissing == [kind |-> "missing"]
FileUnreadable == [kind |-> "unreadable"]
EnvUnset == [kind |-> "unset"]

\* Token-file objects an operator or setup_auth.py can leave on disk.
FileObjects ==
    {JsonObject(tok, rt, "cid", "sec", exp) :
        tok \in {NoneStr, "tokA"}, rt \in {NoneStr, "rtF"},
        exp \in {ExpiryMissing, IsoNaive(200), IsoNaive(600)}}
    \cup {JsonObject("", NoneStr, "cid", "sec", ExpiryMissing),
          JsonObject("tokA", "rtF", "cid", "sec", ExpiryInvalid),
          JsonObject("tokA", "rtF", "cid", "sec", IsoAware(4200, 3600))}

CleanJson == JsonObject("tokJ", "rtJ", "cid", "sec", IsoNaive(600))

FileContents ==
    {FileMissing, FileUnreadable}
    \cup {Text(FALSE, j) : j \in {JsonMalformed, JsonNull, JsonArray} \cup FileObjects}
    \cup {Text(TRUE, CleanJson)}

\* Process environments: GOOGLE_TOKEN_JSON and the three discrete variables.
Env(tj, rt, cid, sec) ==
    [token_json |-> tj, refresh_token |-> rt, client_id |-> cid, client_secret |-> sec]
Environments ==
    { Env(EnvUnset, "", "", ""),
      Env(EnvUnset, "rtE", "cidE", "secE"),
      Env(EnvUnset, "rtE", "", "secE"),
      Env(Text(TRUE, CleanJson), "", "", ""),
      Env(Text(FALSE, CleanJson), "rtE", "cidE", "secE") }

\* Answers of the OAuth2 token endpoint to a refresh, and whether the token
\* file can be written afterwards.
Lifetimes == {400}
RefreshOutcomes ==
    {[ok |-> FALSE, token |-> NoneStr, lifetime |-> 0, save_ok |-> TRUE]}
    \cup {[ok |-> TRUE, token |-> "tokR", lifetime |-> l, save_ok |-> s] :
            l \in Lifetimes, s \in BOOLEAN}

\* ----------------------------------------------------- api/client.py, pure
\* json.loads: control characters outside or inside the JSON text make the
\* strict decoder raise JSONDecodeError, as does malformed JSON.
JsonLoads(text) ==
    IF text.ctrl \/ text.json.kind = "malformed" THEN [kind |-> "decode_error"]
    ELSE text.json

\* _load_from_file looking at a path where no file is.
LoadFromFile_WrongPath(file) == NoneObj

\* _load_from_file: None when the file is missing, unreadable or undecodable;
\* otherwise whatever json.loads returned (JSON null is Python None).
LoadFromFile(file) ==
    IF file.kind = "missing" THEN NoneObj
    ELSE IF file.kind = "unreadable" THEN NoneObj
    ELSE LET v == JsonLoads(file)
         IN IF v.kind \in {"decode_error", "null"} THEN NoneObj ELSE v

\* _load_from_env_vars testing the refresh token alone.
LoadFromEnvVars_RefreshTokenOnly(env) ==
    IF Truthy(env.refresh_token)
    THEN JsonObject(NoneStr, env.refresh_token, env.client_id, env.client_secret,
                    ExpiryMissing)
    ELSE NoneObj

\* _load_from_env_vars
LoadFromEnvVars(env) ==
    IF Truthy(env.refresh_token) /\ Truthy(env.client_id) /\ Truthy(env.client_secret)
    THEN JsonObject(NoneStr, env.refresh_token, env.client_id, env.client_secret,
                    ExpiryMissing)
    ELSE NoneObj

\* An in-memory expiry: <<>> is None, else one datetime with its instant and
\* whether it carries tzinfo.
NoExpiry == <<>>
Datetime(t, aware) == <<[t |-> t, aware |-> aware]>>

\* The expiry member parsed with a naive value taken as local time, one hour
\* east of UTC.
ParseExpiry_NaiveAsLocal(e) ==
    IF e.fmt \in {"missing", "invalid"} THEN NoExpiry
    ELSE IF e.fmt = "naive" THEN Datetime(e.local - 3600, TRUE)
    ELSE Datetime(e.local - e.offset, TRUE)

\* client.py:120-128: parse the expiry member; a naive value is taken as UTC.
ParseExpiry(e) ==
    IF e.fmt \in {"missing", "invalid"} THEN NoExpiry
    ELSE IF e.fmt = "naive" THEN Datetime(e.local, TRUE)
    ELSE Datetime(e.local - e.offset, TRUE)

\* client.py:131-139: the Credentials object built from the source's data.
BuildCreds(data) ==
    [kind |-> "creds", token |-> data.token, refresh_token |-> data.refresh_token,
     client_id |-> data.client_id, client_secret |-> data.client_secret,
     expiry |-> ParseExpiry(data.expiry)]

\* creds.expired of the transport library: an expiry that has been reached.
Expired(creds, now) ==
    creds.expiry # NoExpiry /\ creds.expiry[1].t <= now

\* _needs_refresh without the five-minute margin of lines 88-96.
NeedsRefresh_NoMargin(creds, now) ==
    \/ ~Truthy(creds.token)
    \/ Expired(creds, now)

\* _needs_refresh
NeedsRefresh(creds, now) ==
    \/ ~Truthy(creds.token)
    \/ Expired(creds, now)
    \/ creds.expiry # NoExpiry /\ creds.expiry[1].t - now < REFRESH_MARGIN

\* datetime.isoformat of an in-memory expiry.
IsoFormat(exp) ==
    IF exp[1].aware THEN IsoAware(exp[1].t, 0) ELSE IsoNaive(exp[1].t)

\* _save_credentials writing the access token and the expiry only.
SaveData_AccessTokenOnly(creds) ==
    Text(FALSE, JsonObject(creds.token, NoneStr, NoneStr, NoneStr,
                           IF creds.expiry # NoExpiry THEN IsoFormat(creds.expiry)
                           ELSE ExpiryMissing))

\* _save_credentials: the text written to the token file.
SaveData(creds) ==
    Text(FALSE, JsonObject(creds.token, creds.refresh_token, creds.client_id,
                           creds.client_secret,
                           IF creds.expiry # NoExpiry THEN IsoFormat(creds.expiry)
                           ELSE ExpiryMissing))

\* creds.refresh(Request()) when the token endpoint answers: the access token
\* and a naive UTC expiry are replaced in place.
Refreshed(creds, now, net) ==
    [creds EXCEPT !.token = net.token, !.expiry = Datetime(now + net.lifetime, FALSE)]

\* ------------------------------------------------ api/client.py, the store
Absent == [kind |-> "absent"]
Raised == [kind |-> "raised"]

\* _load_credentials returning None at line 118 with no message recorded.
ErrNoSource_Unrecorded == NoneStr

ErrNoSource ==
    "No token file found and GOOGLE_REFRESH_TOKEN/GOOGLE_CLIENT_ID/GOOGLE_CLIENT_SECRET env vars not set"
\* _load_credentials returning None at line 150 with no message recorded.
ErrRefresh_Unrecorded == NoneStr

ErrRefresh == "Token refresh failed"

\* What one call of _load_credentials did, besides returning.
\*   path    the return statement or raise it ended at
\*   source  where data came from: "file", "env_vars", "none", "cache"
\*   built   the Credentials object of lines 131-139 (NoneObj if none was built)
\*   fileWrites  the writes of the token file that went through
CallTrace(path, source, built, fileReads, envReads, netCalls, fileWrites, atStart) ==
    [path |-> path, source |-> source, built |-> built, fileReads |-> fileReads,
     envReads |-> envReads, netCalls |-> netCalls, fileWrites |-> fileWrites,
     cacheAtStart |-> atStart]

\* The result of a call: the value returned (or the raise), the new values of
\* _cached_creds, _last_error and the token file, and the call's trace.
Outcome(ret, cache, err, file, trace) ==
    [ret |-> ret, cache |-> cache, err |-> err, file |-> file, trace |-> trace]

CacheState(cache, now) ==
    IF cache.kind # "creds" THEN "empty"
    ELSE IF NeedsRefresh(cache, now) THEN "stale" ELSE "fresh"

\* _load_credentials without the early return of lines 106-107.
CacheUsable_Never(cache, now) == FALSE

\* _load_credentials, line 106: the cached object is returned as it is.
CacheUsable(cache, now) ==
    cache.kind = "creds" /\ ~NeedsRefresh(cache, now)

\* _load_credentials returning the object without storing it in
\* _cached_creds.
RefreshAndCache_NotCached(creds, cache, file, now, net, source, envReads, atStart) ==
    IF NeedsRefresh(creds, now) /\ Truthy(creds.refresh_token)
    THEN IF net.ok
         THEN LET fresh == Refreshed(creds, now, net)
              IN Outcome(fresh, cache, NoneStr,
                         IF net.save_ok THEN SaveData(fresh) ELSE file,
                         CallTrace("refreshed", source, creds, 1, envReads, 1,
                                   IF net.save_ok THEN 1 ELSE 0, atStart))
         ELSE Outcome(Absent, cache, ErrRefresh, file,
                      CallTrace("refresh_failed", source, creds, 1, envReads, 1, 0, atStart))
    ELSE Outcome(creds, cache, NoneStr, file,
                 CallTrace("loaded", source, creds, 1, envReads, 0, 0, atStart))

\* _load_credentials remembering a failed refresh: the object that could
\* not be refreshed is stored in _cached_creds.
RefreshAndCache_FailureCached(creds, cache, file, now, net, source, envReads, atStart) ==
    IF NeedsRefresh(creds, now) /\ Truthy(creds.refresh_token)
    THEN IF net.ok
         THEN LET fresh == Refreshed(creds, now, net)
              IN Outcome(fresh, fresh, NoneStr,
                         IF net.save_ok THEN SaveData(fresh) ELSE file,
                         CallTrace("refreshed", source, creds, 1, envReads, 1,
                                   IF net.save_ok THEN 1 ELSE 0, atStart))
         ELSE Outcome(Absent, creds, ErrRefresh, file,
                      CallTrace("refresh_failed", source, creds, 1, envReads, 1, 0, atStart))
    ELSE Outcome(creds, creds, NoneStr, file,
                 CallTrace("loaded", source, creds, 1, envReads, 0, 0, atStart))

\* _load_credentials, lines 144-154, for the object creds built from data.
RefreshAndCache(creds, cache, file, now, net, source, envReads, atStart) ==
    IF NeedsRefresh(creds, now) /\ Truthy(creds.refresh_token)
    THEN IF net.ok
         THEN LET fresh == Refreshed(creds, now, net)
              IN Outcome(fresh, fresh, NoneStr,
                         IF net.save_ok THEN SaveData(fresh) ELSE file,
                         CallTrace("refreshed", source, creds, 1, envReads, 1,
                                   IF net.save_ok THEN 1 ELSE 0, atStart))
         ELSE Outcome(Absent, cache, ErrRefresh, file,
                      CallTrace("refresh_failed", source, creds, 1, envReads, 1, 0, atStart))
    ELSE Outcome(creds, creds, NoneStr, file,
                 CallTrace("loaded", source, creds, 1, envReads, 0, 0, atStart))

\* _load_credentials, lines 100-154.
LoadCredentials(cache, file, env, now, net) ==
    LET atStart == CacheState(cache, now)
        fileData == LoadFromFile(file)
        envData == LoadFromEnvVars(env)
        fromFile == fileData.kind # "none"
        data == IF fromFile THEN fileData ELSE envData
        source == IF fromFile THEN "file"
                  ELSE IF envData.kind # "none" THEN "env_vars" ELSE "none"
        envReads == IF fromFile THEN 0 ELSE 1
    IN  IF CacheUsable(cache, now)
        THEN Outcome(cache, cache, NoneStr, file,
                     CallTrace("cache_hit", "cache", NoneObj, 0, 0, 0, 0, atStart))
        ELSE IF data.kind = "none"
        THEN Outcome(Absent, cache, ErrNoSource, file,
                     CallTrace("no_source", source, NoneObj, 1, envReads, 0, 0, atStart))
        ELSE IF data.kind # "object"
        \* line 122: data.get on a list, string or number raises AttributeError
        THEN Outcome(Raised, cache, NoneStr, file,
                     CallTrace("raised", source, NoneObj, 1, envReads, 0, 0, atStart))
        ELSE RefreshAndCache(BuildCreds(data), cache, file, now, net, source,
                             envReads, atStart)

\* The answers of the token endpoint that matter to a call: all of them if
\* the call asks for a refresh, one (never looked at) if it does not.
NoRefresh == [ok |-> FALSE, token |-> NoneStr, lifetime |-> 0, save_ok |-> TRUE]
NetChoices(cache, file, env, now) ==
    IF LoadCredentials(cache, file, env, now, NoRefresh).trace.netCalls = 0
    THEN {NoRefresh}
    ELSE RefreshOutcomes

\* get_auth_headers, given the outcome of its _load_credentials call.  A
\* Credentials object is always truthy; "Bearer " + None raises TypeError.
NoHeaders == [kind |-> "absent"]
Bearer(token) == [kind |-> "headers", Authorization |-> <<"Bearer ", token>>]
AuthHeaders(out) ==
    IF out.ret.kind = "raised" THEN Raised
    ELSE IF out.ret.kind = "absent" THEN NoHeaders
    ELSE IF out.ret.token = NoneStr THEN Raised
    ELSE Bearer(out.ret.token)

\* ------------------------------------------------------------------ state
VARIABLES
    phase,       \* "boot" until start.py has run, then "serving"
    env,         \* os.environ
    tokenFile,   \* tokens/token.json
    now,         \* the clock
    cached,      \* api.client._cached_creds
    lastError,   \* api.client._last_error
    memo,        \* st.cache_data entry of list_sitemaps: <<>> or <<entry>>
    op,          \* the operation that ran last
    ret,         \* what its _load_credentials call returned
    call,        \* the trace of that call
    hdr,         \* what its get_auth_headers call returned
    opResult,    \* what the operation returned
    httpCalls,   \* HTTP requests the operation sent to the Search Console API
    hdrCalls,    \* get_auth_headers calls the operation made
    lastReply,   \* the reply to the last of its HTTP requests
    qpc,         \* "loop" while query_search_analytics is in its loop
    rowLimit, startRow, allRows, headers,  \* its row_limit and locals
    bpc,         \* "loop" while batch_inspect_urls is in its loop
    urls, hasCallback,   \* its arguments urls and progress_callback
    total, idx, results, \* its locals total, i and results
    events,      \* what it did so far, in order
    df,          \* get_top_queries: the DataFrame query_search_analytics returned
    ranked,      \* get_top_queries: the DataFrame it returns (<<>> before the call)
    tpc,         \* per thread: where its _load_credentials call stands
    tcreds,      \* per thread: the local creds of that call
    tret,        \* per thread: what the call returned
    tnet         \* per thread: the refresh requests the call made

credVars == <<phase, env, tokenFile, now, cached, lastError>>
ghostVars == <<op, ret, call, hdr, opResult>>
queryVars == <<qpc, rowLimit, startRow, allRows, headers>>
batchVars == <<bpc, urls, hasCallback, total, idx, results, events>>
viewVars == <<df, ranked>>
callVars == <<tpc, tcreds, tret, tnet>>
vars == <<credVars, memo, ghostVars, httpCalls, hdrCalls, lastReply, queryVars, batchVars,
          viewVars, callVars>>

\* The script threads that can be inside _load_credentials at a time: two,
\* one per browser session.
Threads == {1, 2}

NoCall == CallTrace("none", "none", NoneObj, 0, 0, 0, 0, "empty")
NotCalled == [kind |-> "not_called"]
NoResult == [kind |-> "no_result"]
NoReply == [kind |-> "none"]

\* No operation's outcome is on record.
Forget(name) ==
    /\ op' = name
    /\ ret' = NotCalled
    /\ call' = NoCall
    /\ hdr' = NotCalled
    /\ opResult' = NoResult
    /\ httpCalls' = 0
    /\ hdrCalls' = 0
    /\ lastReply' = NoReply

\* No query is running; the locals of the last one are gone.
QueryIdle ==
    /\ qpc = "idle"
    /\ qpc' = "idle"
    /\ rowLimit' = 0
    /\ startRow' = 0
    /\ allRows' = <<>>
    /\ headers' = NotCalled

\* No batch is running; the locals of the last one are gone.
BatchIdle ==
    /\ bpc = "idle"
    /\ bpc' = "idle"
    /\ urls' = <<>>
    /\ hasCallback' = FALSE
    /\ total' = 0
    /\ idx' = 0
    /\ results' = <<>>
    /\ events' = <<>>

\* Token files the dashboard is started with.
InitFiles ==
    {FileMissing}
    \cup {Text(FALSE, JsonObject("tokA", "rtF", "cid", "sec", e)) :
            e \in {IsoNaive(200), IsoNaive(600)}}
    \cup {Text(FALSE, JsonObject(t, NoneStr, "cid", "sec", ExpiryMissing)) :
            t \in {NoneStr, ""}}

InitStore ==
    /\ env \in Environments
    /\ tokenFile \in InitFiles
    /\ now = 0
    /\ cached = NoneObj
    /\ lastError = NoneStr
    /\ memo = <<>>
    /\ op = "init" /\ ret = NotCalled /\ call = NoCall /\ hdr = NotCalled
    /\ opResult = NoResult /\ httpCalls = 0 /\ hdrCalls = 0
    /\ lastReply = NoReply
    /\ qpc = "idle" /\ rowLimit = 0 /\ startRow = 0 /\ allRows = <<>>
    /\ headers = NotCalled
    /\ bpc = "idle" /\ urls = <<>> /\ hasCallback = FALSE /\ total = 0 /\ idx = 0
    /\ results = <<>> /\ events = <<>>
    /\ tpc = [t \in Threads |-> "idle"]
    /\ tcreds = [t \in Threads |-> NoneObj]
    /\ tret = [t \in Threads |-> NotCalled]
    /\ tnet = [t \in Threads |-> 0]

\* No DataFrame has been handed to a ranked view.
NoFrame ==
    /\ df = <<>>
    /\ ranked = <<>>

Init ==
    /\ phase \in {"boot", "serving"}
    /\ InitStore
    /\ NoFrame

\* ------------------------------------------------- the store's environment
\* start.py, setup_token: GOOGLE_TOKEN_JSON is written to the token file as
\* it is; then Streamlit is launched.
SetupToken ==
    /\ phase = "boot"
    /\ phase' = "serving"
    /\ tokenFile' = IF env.token_json.kind = "text" THEN env.token_json ELSE tokenFile
    /\ Forget("setup_token")
    /\ QueryIdle
    /\ BatchIdle
    /\ UNCHANGED <<viewVars, callVars>>
    /\ UNCHANGED <<env, now, cached, lastError, memo>>

\* The token file is replaced from outside the dashboard (setup_auth.py,
\* catch_code.py, a deployment).
ReplaceTokenFile ==
    /\ phase = "serving"
    /\ \E c \in FileContents \ {FileMissing, tokenFile} : tokenFile' = c
    /\ Forget("replace_file")
    /\ QueryIdle
    /\ BatchIdle
    /\ UNCHANGED <<viewVars, callVars>>
    /\ UNCHANGED <<phase, env, now, cached, lastError, memo>>

\* auth/token_storage.py, clear_credentials
DeleteTokenFile ==
    /\ phase = "serving"
    /\ tokenFile.kind # "missing"
    /\ tokenFile' = FileMissing
    /\ Forget("delete_file")
    /\ QueryIdle
    /\ BatchIdle
    /\ UNCHANGED <<viewVars, callVars>>
    /\ UNCHANGED <<phase, env, now, cached, lastError, memo>>

\* Time passes.
Tick ==
    /\ phase = "serving"
    /\ now < MaxClock * ClockStep
    /\ now' = now + ClockStep
    /\ Forget("tick")
    /\ QueryIdle
    /\ BatchIdle
    /\ UNCHANGED <<viewVars, callVars>>
    /\ UNCHANGED <<phase, env, tokenFile, cached, lastError, memo>>

\* --------------------------------------------------------- the store's API
\* The store's variables after a _load_credentials call with outcome out.
StoreAfter(out) ==
    /\ cached' = out.cache
    /\ lastError' = out.err
    /\ tokenFile' = out.file
    /\ ret' = out.ret
    /\ call' = out.trace
    /\ UNCHANGED <<phase, env, now>>

\* get_credentials
Acquire ==
    /\ phase = "serving"
    /\ \E net \in NetChoices(cached, tokenFile, env, now) :
          StoreAfter(LoadCredentials(cached, tokenFile, env, now, net))
    /\ op' = "acquire"
    /\ hdr' = NotCalled
    /\ opResult' = NoResult
    /\ httpCalls' = 0
    /\ hdrCalls' = 0
    /\ lastReply' = NoReply
    /\ QueryIdle
    /\ BatchIdle
    /\ UNCHANGED <<viewVars, callVars>>
    /\ UNCHANGED memo

\* get_auth_headers
GetAuthHeaders ==
    /\ phase = "serving"
    /\ \E net \in NetChoices(cached, tokenFile, env, now) :
          LET out == LoadCredentials(cached, tokenFile, env, now, net)
          IN /\ StoreAfter(out)
             /\ hdr' = AuthHeaders(out)
    /\ op' = "get_auth_headers"
    /\ opResult' = NoResult
    /\ httpCalls' = 0
    /\ hdrCalls' = 1
    /\ lastReply' = NoReply
    /\ QueryIdle
    /\ BatchIdle
    /\ UNCHANGED <<viewVars, callVars>>
    /\ UNCHANGED memo

NextStore ==
    \/ SetupToken
    \/ ReplaceTokenFile
    \/ DeleteTokenFile
    \/ Tick
    \/ Acquire
    \/ GetAuthHeaders

SpecStore == Init /\ [][NextStore]_vars

\* ------------------------------------------------------ REST operations
\* Replies of the Search Console API to one request: the transport fails, or
\* a status comes back with a body that is not JSON, is a JSON object
\* without the member asked for, or carries that member.
\* Only a 200 is read further, so the other statuses come with one body.
Bodies == {"undecodable", "empty_object", "payload"}
Replies ==
    {[kind |-> "transport_error"]}
    \cup {[kind |-> "http", status |-> 200, body |-> b] : b \in Bodies}
    \cup {[kind |-> "http", status |-> st, body |-> "undecodable"] : st \in {204, 403}}
\* The replies that matter to a caller holding headers h: without headers no
\* request is answered.
RepliesTo(h) ==
    IF h.kind = "headers" THEN Replies ELSE {[kind |-> "transport_error"]}

\* Values the operations return.
RaisedResult == [kind |-> "raised"]
ListResult(items) == [kind |-> "list", items |-> items]
BoolResult(b) == [kind |-> "bool", ok |-> b]
DictResult(d) == [kind |-> "dict", dict |-> d]
FrameResult(pages) == [kind |-> "frame", pages |-> pages]

\* What the body of an operation did: the value returned (or the raise),
\* the HTTP requests sent, and whether st.cache_data.clear() ran.
Effect(result, sent, clears) == [result |-> result, sent |-> sent, clears |-> clears]

\* list_sitemaps, lines 21-28, with headers h and the reply to its GET.
ListSitemapsBody(h, reply) ==
    IF h.kind = "raised" THEN Effect(RaisedResult, 0, FALSE)
    ELSE IF h.kind = "absent" THEN Effect(ListResult(<<>>), 0, FALSE)
    ELSE IF reply.kind = "transport_error" THEN Effect(RaisedResult, 1, FALSE)
    ELSE IF reply.status # 200 THEN Effect(ListResult(<<>>), 1, FALSE)
    ELSE IF reply.body = "undecodable" THEN Effect(RaisedResult, 1, FALSE)
    ELSE IF reply.body = "empty_object" THEN Effect(ListResult(<<>>), 1, FALSE)
    ELSE Effect(ListResult(<<"sitemap.xml">>), 1, FALSE)

\* submit_sitemap sending its PUT without looking at the headers.
SubmitSitemapBody_NoGuard(h, reply) ==
    IF h.kind = "raised" THEN Effect(RaisedResult, 0, FALSE)
    ELSE IF reply.kind = "transport_error" THEN Effect(RaisedResult, 1, FALSE)
    ELSE Effect(BoolResult(reply.status = 204 \/ reply.status = 200), 1, TRUE)

\* submit_sitemap, lines 33-39, with headers h and the reply to its PUT.
SubmitSitemapBody(h, reply) ==
    IF h.kind = "raised" THEN Effect(RaisedResult, 0, FALSE)
    ELSE IF h.kind = "absent" THEN Effect(BoolResult(FALSE), 0, FALSE)
    ELSE IF reply.kind = "transport_error" THEN Effect(RaisedResult, 1, FALSE)
    ELSE Effect(BoolResult(reply.status = 204 \/ reply.status = 200), 1, TRUE)

\* delete_sitemap, lines 44-50, with headers h and the reply to its DELETE.
DeleteSitemapBody(h, reply) ==
    IF h.kind = "raised" THEN Effect(RaisedResult, 0, FALSE)
    ELSE IF h.kind = "absent" THEN Effect(BoolResult(FALSE), 0, FALSE)
    ELSE IF reply.kind = "transport_error" THEN Effect(RaisedResult, 1, FALSE)
    ELSE Effect(BoolResult(reply.status = 204 \/ reply.status = 200), 1, TRUE)

\* inspect_url, lines 16-23, with headers h and the reply to its POST.
InspectUrlBody(h, reply) ==
    IF h.kind = "raised" THEN Effect(RaisedResult, 0, FALSE)
    ELSE IF h.kind = "absent" THEN Effect(DictResult("empty"), 0, FALSE)
    ELSE IF reply.kind = "transport_error" THEN Effect(RaisedResult, 1, FALSE)
    ELSE IF reply.status # 200 THEN Effect(RaisedResult, 1, FALSE)
    ELSE IF reply.body = "undecodable" THEN Effect(RaisedResult, 1, FALSE)
    ELSE IF reply.body = "empty_object" THEN Effect(DictResult("empty"), 1, FALSE)
    ELSE Effect(DictResult("inspectionResult"), 1, FALSE)

\* An st.cache_data entry: the memoized value and when it was stored.
MemoEntry(value, at) == <<[value |-> value, at |-> at]>>
MemoLive == memo # <<>> /\ now - memo[1].at < CACHE_TTL

\* The operation's outcome as the caller sees it.
Returns(name, effect, reply) ==
    /\ op' = name
    /\ opResult' = effect.result
    /\ httpCalls' = effect.sent
    /\ lastReply' = IF effect.sent = 0 THEN NoReply ELSE reply

\* list_sitemaps under @st.cache_data(ttl=CACHE_TTL): a live entry answers
\* the call; otherwise the body runs and what it returns is memoized.
ListSitemaps ==
    /\ phase = "serving"
    /\ QueryIdle
    /\ BatchIdle
    /\ UNCHANGED <<viewVars, callVars>>
    /\ IF MemoLive
       THEN /\ Returns("list_sitemaps", Effect(memo[1].value, 0, FALSE), NoReply)
            /\ ret' = NotCalled /\ call' = NoCall /\ hdr' = NotCalled
            /\ hdrCalls' = 0
            /\ UNCHANGED <<credVars, memo>>
       ELSE \E net \in NetChoices(cached, tokenFile, env, now) :
            \E reply \in RepliesTo(AuthHeaders(LoadCredentials(cached, tokenFile, env, now, net))) :
               LET out == LoadCredentials(cached, tokenFile, env, now, net)
                   eff == ListSitemapsBody(AuthHeaders(out), reply)
               IN /\ StoreAfter(out)
                  /\ hdr' = AuthHeaders(out)
                  /\ hdrCalls' = 1
                  /\ Returns("list_sitemaps", eff, reply)
                  /\ memo' = IF eff.result.kind = "raised" THEN memo
                             ELSE MemoEntry(eff.result, now)

\* The body of an operation that is not memoized.
BodyOf(name, h, reply) ==
    CASE name = "submit_sitemap" -> SubmitSitemapBody(h, reply)
      [] name = "delete_sitemap" -> DeleteSitemapBody(h, reply)
      [] name = "inspect_url" -> InspectUrlBody(h, reply)

\* One call of an operation that is not memoized.
Unmemoized(name) ==
    \E net \in NetChoices(cached, tokenFile, env, now) :
    \E reply \in RepliesTo(AuthHeaders(LoadCredentials(cached, tokenFile, env, now, net))) :
       LET out == LoadCredentials(cached, tokenFile, env, now, net)
           eff == BodyOf(name, AuthHeaders(out), reply)
       IN /\ StoreAfter(out)
          /\ hdr' = AuthHeaders(out)
          /\ hdrCalls' = 1
          /\ Returns(name, eff, reply)
          /\ memo' = IF eff.clears THEN <<>> ELSE memo

SubmitSitemap ==
    /\ phase = "serving"
    /\ QueryIdle
    /\ BatchIdle
    /\ UNCHANGED <<viewVars, callVars>>
    /\ Unmemoized("submit_sitemap")

DeleteSitemap ==
    /\ phase = "serving"
    /\ QueryIdle
    /\ BatchIdle
    /\ UNCHANGED <<viewVars, callVars>>
    /\ Unmemoized("delete_sitemap")

InspectUrl ==
    /\ phase = "serving"
    /\ QueryIdle
    /\ BatchIdle
    /\ UNCHANGED <<viewVars, callVars>>
    /\ Unmemoized("inspect_url")

\* ------------------------------------------- api/search_analytics.py
\* row_limit arguments and the numbers of rows a reply can carry.
RowLimits == {0, 10, 25000, 30000, 60000}
PageLens == {5, 10, 25, 25000}

Min(a, b) == IF a <= b THEN a ELSE b

\* The rows of all_rows, kept page by page: the startRow each page was asked
\* at and the number of rows it brought.
Page(start, len) == [start |-> start, len |-> len]
RECURSIVE TotalRows(_)
TotalRows(pages) ==
    IF pages = <<>> THEN 0 ELSE pages[1].len + TotalRows(Tail(pages))

\* query_search_analytics reading the body of a reply whatever its status.
BadStatus_Ignored(reply) == FALSE

\* query_search_analytics, line 55: the reply's status is not 200.
BadStatus(reply) == reply.status # 200

\* query_search_analytics going on after a page shorter than asked for.
ShortPage_Never(n, limit) == FALSE

\* query_search_analytics, lines 74-75: the page brought fewer rows than the
\* request asked for.
ShortPage(n, limit) == n < Min(limit, MAX_ROWS_PER_REQUEST)

\* query_search_analytics asking for the next page at the length of the last.
NextStartRow_LastPage(start, n) == n

\* query_search_analytics, line 73: start_row += len(rows).
NextStartRow(start, n) == start + n

\* query_search_analytics never stopping at the caller's row_limit.
LimitReached_Never(start, limit) == FALSE

\* query_search_analytics, lines 76-77: the rows received so far reach the
\* caller's row_limit.
LimitReached(start, limit) == start >= limit

\* query_search_analytics, lines 32-39: the headers are fetched, and without
\* them an empty DataFrame is returned at once.  (A call that st.cache_data
\* answers from an earlier result never enters the body and changes nothing.)
QueryStart ==
    /\ phase = "serving"
    /\ qpc = "idle"
    /\ \E limit \in RowLimits, net \in NetChoices(cached, tokenFile, env, now) :
          LET out == LoadCredentials(cached, tokenFile, env, now, net)
              h == AuthHeaders(out)
          IN /\ StoreAfter(out)
             /\ hdr' = h
             /\ headers' = h
             /\ rowLimit' = limit
             /\ qpc' = IF h.kind = "headers" THEN "loop" ELSE "idle"
             /\ opResult' = IF h.kind = "raised" THEN RaisedResult
                            ELSE IF h.kind = "absent" THEN FrameResult(<<>>)
                            ELSE NoResult
    /\ op' = "query"
    /\ startRow' = 0
    /\ allRows' = <<>>
    /\ httpCalls' = 0
    /\ hdrCalls' = 1
    /\ lastReply' = NoReply
    /\ BatchIdle
    /\ UNCHANGED <<viewVars, callVars>>
    /\ UNCHANGED memo

\* The loop has ended: DataFrame(all_rows) is returned.
QueryReturns(rows) ==
    /\ qpc' = "idle"
    /\ opResult' = FrameResult(rows)

\* query_search_analytics, lines 41-79: one iteration of the loop, with the
\* reply to its POST carrying n rows.
QueryPage ==
    /\ phase = "serving"
    /\ qpc = "loop"
    /\ \E reply \in Replies :
       \E n \in (IF reply.kind = "http" /\ reply.body = "payload" THEN PageLens ELSE {0}) :
          /\ httpCalls' = httpCalls + 1
          /\ lastReply' = reply
          /\ IF reply.kind = "transport_error"
             THEN \* line 54: requests.post raises
                  /\ qpc' = "idle"
                  /\ opResult' = RaisedResult
                  /\ UNCHANGED <<startRow, allRows>>
             ELSE IF BadStatus(reply)
             THEN \* lines 55-56: break
                  /\ QueryReturns(allRows)
                  /\ UNCHANGED <<startRow, allRows>>
             ELSE IF reply.body = "undecodable"
             THEN \* line 58: resp.json() raises
                  /\ qpc' = "idle"
                  /\ opResult' = RaisedResult
                  /\ UNCHANGED <<startRow, allRows>>
             ELSE IF n = 0
             THEN \* lines 59-60: break
                  /\ QueryReturns(allRows)
                  /\ UNCHANGED <<startRow, allRows>>
             ELSE \* lines 62-77
                  /\ allRows' = Append(allRows, Page(startRow, n))
                  /\ startRow' = NextStartRow(startRow, n)
                  /\ IF \/ ShortPage(n, rowLimit)
                        \/ LimitReached(NextStartRow(startRow, n), rowLimit)
                     THEN QueryReturns(Append(allRows, Page(startRow, n)))
                     ELSE /\ qpc' = "loop"
                          /\ opResult' = NoResult
    /\ UNCHANGED <<credVars, memo, op, ret, call, hdr, hdrCalls, rowLimit, headers,
                   batchVars, viewVars, callVars>>

\* query_search_analytics, line 54: time passes while the loop waits for the
\* reply to a POST.
PostTakesTime ==
    /\ phase = "serving"
    /\ qpc = "loop"
    /\ now < MaxClock * ClockStep
    /\ now' = now + ClockStep
    /\ UNCHANGED <<phase, env, tokenFile, cached, lastError, memo, ghostVars,
                   httpCalls, hdrCalls, lastReply, queryVars, batchVars, viewVars, callVars>>

\* --------------------------------------------- api/url_inspection.py, batch
\* The lists of URLs a batch is asked to inspect: one of each length, not in
\* alphabetical order, naming a URL again from the third on.
UrlLists == {[k \in 1..n |-> IF k % 2 = 1 THEN "/b" ELSE "/a"] : n \in 0..MaxUrls}

\* str(e) of the exception inspect_url ended with, given the headers h and
\* the reply to its POST.
ErrorText(h, reply) ==
    IF h.kind = "raised" THEN "TypeError"
    ELSE IF reply.kind = "transport_error" THEN "ConnectionError"
    ELSE IF reply.status # 200 THEN "API error"
    ELSE "JSONDecodeError"

\* One item of results.
Item(url, result, error) == [url |-> url, result |-> result, error |-> error]

\* batch_inspect_urls taking a failed inspection for an empty result.
ItemOf_FailureHidden(url, effect, text) ==
    IF effect.result.kind = "raised" THEN Item(url, DictResult("empty"), NoneStr)
    ELSE Item(url, effect.result, NoneStr)

\* batch_inspect_urls, lines 31-35: the item appended for a URL, given what
\* inspect_url did and the text of the exception if it raised.
ItemOf(url, effect, text) ==
    IF effect.result.kind = "raised" THEN Item(url, NoneObj, text)
    ELSE Item(url, effect.result, NoneStr)

\* What the batch did, in order: "inspect" (inspect_url is called for URL
\* k), "record" (its item is appended), "progress" (the callback is called
\* with (k, n)), "sleep" (time.sleep after URL k).
Ev(what, k, n) == [ev |-> what, k |-> k, n |-> n]

\* batch_inspect_urls calling the callback with the loop index as it is.
ProgressArgs_ZeroBased(i, n) == <<i, n>>

\* batch_inspect_urls, line 37: the arguments of progress_callback.
ProgressArgs(i, n) == <<i + 1, n>>

\* batch_inspect_urls sleeping after every URL.
SleepsAfter_Every(i, n) == TRUE

\* batch_inspect_urls, line 38: a sleep follows URL i (counted from 0)
\* unless it is the last.
SleepsAfter(i, n) == i < n - 1

\* batch_inspect_urls, lines 28-29 and, for an empty list, line 40.
BatchStart ==
    /\ phase = "serving"
    /\ bpc = "idle"
    /\ \E list \in UrlLists, cb \in BOOLEAN :
          /\ urls' = list
          /\ hasCallback' = cb
          /\ total' = Len(list)
          /\ bpc' = IF Len(list) = 0 THEN "idle" ELSE "loop"
          /\ opResult' = IF Len(list) = 0 THEN ListResult(<<>>) ELSE NoResult
    /\ idx' = 0
    /\ results' = <<>>
    /\ events' = <<>>
    /\ op' = "batch_inspect_urls"
    /\ ret' = NotCalled /\ call' = NoCall /\ hdr' = NotCalled
    /\ httpCalls' = 0 /\ hdrCalls' = 0 /\ lastReply' = NoReply
    /\ QueryIdle
    /\ UNCHANGED <<credVars, memo, viewVars, callVars>>

\* batch_inspect_urls, lines 30-40: one iteration of the loop, for
\* urls[idx + 1], and the return after the last.
BatchInspect ==
    /\ phase = "serving"
    /\ bpc = "loop"
    /\ \E net \in NetChoices(cached, tokenFile, env, now) :
       \E reply \in RepliesTo(AuthHeaders(LoadCredentials(cached, tokenFile, env, now, net))) :
          LET out == LoadCredentials(cached, tokenFile, env, now, net)
              h == AuthHeaders(out)
              eff == InspectUrlBody(h, reply)
              item == ItemOf(urls[idx + 1], eff, ErrorText(h, reply))
              args == ProgressArgs(idx, total)
          IN /\ StoreAfter(out)
             /\ hdr' = h
             /\ hdrCalls' = hdrCalls + 1
             /\ httpCalls' = httpCalls + eff.sent
             /\ lastReply' = IF eff.sent = 0 THEN NoReply ELSE reply
             /\ results' = Append(results, item)
             /\ events' = events
                    \o <<Ev("inspect", idx + 1, total), Ev("record", idx + 1, total)>>
                    \o (IF hasCallback THEN <<Ev("progress", args[1], args[2])>> ELSE <<>>)
                    \o (IF SleepsAfter(idx, total) THEN <<Ev("sleep", idx + 1, total)>>
                        ELSE <<>>)
             /\ idx' = idx + 1
             /\ IF idx + 1 = total
                THEN /\ bpc' = "idle"
                     /\ opResult' = ListResult(Append(results, item))
                ELSE /\ bpc' = "loop"
                     /\ opResult' = NoResult
    /\ UNCHANGED <<memo, op, urls, hasCallback, total, queryVars, viewVars, callVars>>

\* batch_inspect_urls, lines 33 and 39: time passes while the batch waits
\* for a reply or sleeps.
BatchTakesTime ==
    /\ phase = "serving"
    /\ bpc = "loop"
    /\ now < MaxClock * ClockStep
    /\ now' = now + ClockStep
    /\ UNCHANGED <<phase, env, tokenFile, cached, lastError, memo, ghostVars,
                   httpCalls, hdrCalls, lastReply, queryVars, batchVars, viewVars, callVars>>

\* The dashboard is serving and only the URL Inspection page is used.
NextBatch ==
    \/ Tick
    \/ BatchStart
    \/ BatchInspect
    \/ BatchTakesTime

\* ------------------------------- api/search_analytics.py, the ranked views
\* A row of the DataFrame: its dimension key (here the place the server
\* returned it at) and its clicks.
Row(key, clicks) == [key |-> key, clicks |-> clicks]

\* The DataFrames query_search_analytics can hand to a view.
Frames ==
    UNION {{[k \in 1..n |-> Row(k, c[k])] : c \in [1..n -> 0..MaxClicks]} : n \in 0..MaxRows}

\* The orders rows can be put in.
Orders(n) ==
    {p \in [1..n -> 1..n] : \A i, j \in 1..n : p[i] = p[j] => i = j}

\* df.sort_values("clicks", ascending=False): kind is left at its default,
\* "quicksort", which does not keep rows with equal clicks in their order;
\* any arrangement with the clicks descending can come out.
SortValues(frame) ==
    {[i \in 1..Len(frame) |-> frame[p[i]]] : p \in
        {q \in Orders(Len(frame)) :
            \A i \in 1..(Len(frame) - 1) : frame[q[i]].clicks >= frame[q[i + 1]].clicks}}

\* get_top_queries (and get_top_pages, get_country_breakdown,
\* get_device_breakdown, get_query_page_combinations), lines 93-96, on the
\* DataFrame df the query returned.
GetTopQueries ==
    /\ phase = "serving"
    /\ qpc = "idle" /\ bpc = "idle"
    /\ ranked' \in (IF df = <<>> THEN {df} ELSE SortValues(df))
    /\ op' = "get_top_queries"
    /\ UNCHANGED <<credVars, memo, ret, call, hdr, opResult, httpCalls, hdrCalls,
                   lastReply, queryVars, batchVars, df, callVars>>

\* A query has returned a DataFrame; the store plays no part.
InitSort ==
    /\ phase = "serving"
    /\ InitStore
    /\ env = Env(EnvUnset, "", "", "")
    /\ tokenFile = FileMissing
    /\ df \in Frames
    /\ ranked = <<>>

NextSort == GetTopQueries

SpecSort == InitSort /\ [][NextSort]_vars

\* ------------------------------------------------------- the dashboard
\* The token files the dashboard is serving with: none, one whose token is
\* good for ten minutes, and one that holds no token at all.
ServingFiles ==
    {FileMissing,
     Text(FALSE, JsonObject("tokA", "rtF", "cid", "sec", IsoNaive(600))),
     Text(FALSE, JsonObject(NoneStr, NoneStr, "cid", "sec", ExpiryMissing))}

\* The dashboard is serving; no token file is replaced from outside.
InitRest ==
    /\ phase = "serving"
    /\ InitStore
    /\ NoFrame
    /\ env \in {Env(EnvUnset, "", "", ""), Env(EnvUnset, "rtE", "cidE", "secE")}
    /\ tokenFile \in ServingFiles

NextRest ==
    \/ Tick
    \/ ListSitemaps
    \/ SubmitSitemap
    \/ DeleteSitemap
    \/ InspectUrl
    \/ QueryStart
    \/ QueryPage
    \/ PostTakesTime

SpecRest == InitRest /\ [][NextRest]_vars
\* A batch starts on the dashboard as it is served.
InitBatch ==
    /\ InitRest
    /\ tokenFile \in ServingFiles

SpecBatch == InitBatch /\ [][NextBatch]_vars

\* --------------------------------------------------- auth/token_storage.py
\* load_credentials, lines 48-55: the Credentials object is built without
\* an expiry, whatever the file says.
StorageBuildCreds(data) ==
    [kind |-> "creds", token |-> data.token, refresh_token |-> data.refresh_token,
     client_id |-> data.client_id, client_secret |-> data.client_secret,
     expiry |-> NoExpiry]

\* load_credentials, lines 57-65, for the object creds: refresh and save if
\* the library calls it expired and it has a refresh token; on any
\* exception the token file is deleted and None returned.
StorageRefresh(creds, file, t, net) ==
    IF Expired(creds, t) /\ Truthy(creds.refresh_token)
    THEN IF net.ok /\ net.save_ok
         THEN LET fresh == Refreshed(creds, t, net)
              IN Outcome(fresh, NoneObj, NoneStr, SaveData(fresh),
                         CallTrace("refreshed", "file", creds, 1, 0, 1, 1, "empty"))
         ELSE Outcome(Absent, NoneObj, NoneStr, FileMissing,
                      CallTrace("refresh_failed", "file", creds, 1, 0, 1,
                                IF net.ok THEN 1 ELSE 0, "empty"))
    ELSE Outcome(creds, NoneObj, NoneStr, file,
                 CallTrace("loaded", "file", creds, 1, 0, 0, 0, "empty"))

\* load_credentials, lines 37-65.
StorageLoadCredentials(file, t, net) ==
    IF file.kind \in {"missing", "unreadable"}
    THEN Outcome(Absent, NoneObj, NoneStr, file,
                 CallTrace("no_source", "none", NoneObj,
                           IF file.kind = "missing" THEN 0 ELSE 1, 0, 0, 0, "empty"))
    ELSE LET data == JsonLoads(file)
         IN IF data.kind = "decode_error"
            THEN Outcome(Absent, NoneObj, NoneStr, file,
                         CallTrace("no_source", "none", NoneObj, 1, 0, 0, 0, "empty"))
            ELSE IF data.kind # "object"
            \* line 49: data.get on None, a list, a string raises AttributeError
            THEN Outcome(Raised, NoneObj, NoneStr, file,
                         CallTrace("raised", "file", NoneObj, 1, 0, 0, 0, "empty"))
            ELSE StorageRefresh(StorageBuildCreds(data), file, t, net)

\* auth.token_storage.load_credentials (auth.oauth.get_credentials,
\* handle_auth_callback).  The module keeps no cache and no diagnostic.
StorageLoad ==
    /\ phase = "serving"
    /\ \E net \in (IF StorageLoadCredentials(tokenFile, now, NoRefresh).trace.netCalls = 0
                   THEN {NoRefresh} ELSE RefreshOutcomes) :
          LET out == StorageLoadCredentials(tokenFile, now, net)
          IN /\ tokenFile' = out.file
             /\ ret' = out.ret
             /\ call' = out.trace
    /\ op' = "storage_load"
    /\ hdr' = NotCalled
    /\ opResult' = NoResult
    /\ httpCalls' = 0
    /\ hdrCalls' = 0
    /\ lastReply' = NoReply
    /\ QueryIdle
    /\ BatchIdle
    /\ UNCHANGED <<phase, env, now, cached, lastError, memo, viewVars, callVars>>

\* The OAuth pages are in use: token files come and go, time passes and
\* load_credentials is called.
InitStorage ==
    /\ phase = "serving"
    /\ InitStore
    /\ NoFrame
    /\ env = Env(EnvUnset, "", "", "")

NextStorage ==
    \/ ReplaceTokenFile
    \/ DeleteTokenFile
    \/ Tick
    \/ StorageLoad

SpecStorage == InitStorage /\ [][NextStorage]_vars

\* ----------------------------- api/client.py, calls of several threads
\* _load_credentials statement by statement, for calls that Streamlit's
\* script threads make at the same time.  No lock is taken anywhere.
\* What a step of one call leaves alone, besides the store and the locals.
callFrame == <<phase, env, now, memo, ghostVars, httpCalls, hdrCalls, lastReply,
               queryVars, batchVars, viewVars>>

\* The call of thread t has ended with value v.
CallDone(t, v) ==
    /\ tpc' = [tpc EXCEPT ![t] = "done"]
    /\ tret' = [tret EXCEPT ![t] = v]

\* _cached_creds patched with the new access token instead of being rebound.
CacheAfterStore_TokenOnly(cache, creds) ==
    IF cache.kind = "creds" THEN [cache EXCEPT !.token = creds.token] ELSE creds

\* line 153, _cached_creds = creds: the global is rebound to the call's
\* object in one assignment.
CacheAfterStore(cache, creds) == creds

\* lines 103-107: the diagnostic is reset and the cache looked at.
CallBegin(t) ==
    /\ phase = "serving"
    /\ tpc[t] = "idle"
    /\ lastError' = NoneStr
    /\ IF CacheUsable(cached, now)
       THEN CallDone(t, cached)
       ELSE /\ tpc' = [tpc EXCEPT ![t] = "load"]
            /\ tret' = tret
    /\ UNCHANGED <<callFrame, tokenFile, cached, tcreds, tnet>>

\* lines 110-145: the sources are read, the object is built and the need
\* for a refresh decided.
CallLoad(t) ==
    /\ tpc[t] = "load"
    /\ LET fileData == LoadFromFile(tokenFile)
           data == IF fileData.kind # "none" THEN fileData ELSE LoadFromEnvVars(env)
           creds == BuildCreds(data)
       IN IF data.kind = "none"
          THEN /\ lastError' = ErrNoSource
               /\ CallDone(t, Absent)
               /\ tcreds' = tcreds
          ELSE IF data.kind # "object"
          THEN /\ lastError' = lastError
               /\ CallDone(t, Raised)
               /\ tcreds' = tcreds
          ELSE /\ lastError' = lastError
               /\ tcreds' = [tcreds EXCEPT ![t] = creds]
               /\ tret' = tret
               /\ tpc' = [tpc EXCEPT ![t] =
                            IF NeedsRefresh(creds, now) /\ Truthy(creds.refresh_token)
                            THEN "refresh" ELSE "store"]
    /\ UNCHANGED <<callFrame, tokenFile, cached, tnet>>

\* lines 146-150: creds.refresh(Request()) answers or raises.
CallRefresh(t) ==
    /\ tpc[t] = "refresh"
    /\ tnet' = [tnet EXCEPT ![t] = tnet[t] + 1]
    /\ \E net \in {r \in RefreshOutcomes : r.save_ok} :
          IF net.ok
          THEN /\ tcreds' = [tcreds EXCEPT ![t] = Refreshed(tcreds[t], now, net)]
               /\ tpc' = [tpc EXCEPT ![t] = "save"]
               /\ tret' = tret
               /\ lastError' = lastError
          ELSE /\ lastError' = ErrRefresh
               /\ CallDone(t, Absent)
               /\ tcreds' = tcreds
    /\ UNCHANGED <<callFrame, tokenFile, cached>>

\* line 148: _save_credentials writes the token file, or cannot.
CallSave(t) ==
    /\ tpc[t] = "save"
    /\ \E written \in BOOLEAN :
          tokenFile' = IF written THEN SaveData(tcreds[t]) ELSE tokenFile
    /\ tpc' = [tpc EXCEPT ![t] = "store"]
    /\ UNCHANGED <<callFrame, cached, lastError, tcreds, tret, tnet>>

\* lines 153-154: the object is cached and returned.
CallStore(t) ==
    /\ tpc[t] = "store"
    /\ cached' = CacheAfterStore(cached, tcreds[t])
    /\ CallDone(t, tcreds[t])
    /\ UNCHANGED <<callFrame, tokenFile, lastError, tcreds, tnet>>

\* The caller has its value; the thread may call again.
CallEnd(t) ==
    /\ tpc[t] = "done"
    /\ tpc' = [tpc EXCEPT ![t] = "idle"]
    /\ tcreds' = [tcreds EXCEPT ![t] = NoneObj]
    /\ tret' = [tret EXCEPT ![t] = NotCalled]
    /\ tnet' = [tnet EXCEPT ![t] = 0]
    /\ UNCHANGED <<callFrame, tokenFile, cached, lastError>>

\* The dashboard is serving two sessions.
InitRace ==
    /\ InitRest
    /\ tokenFile \in {FileMissing,
                      Text(FALSE, JsonObject("tokA", "rtF", "cid", "sec", IsoNaive(200))),
                      Text(FALSE, JsonObject("tokA", "rtF", "cid", "sec", IsoNaive(600)))}

NextRace ==
    \/ Tick
    \/ \E t \in Threads : CallBegin(t)
    \/ \E t \in Threads : CallLoad(t)
    \/ \E t \in Threads : CallRefresh(t)
    \/ \E t \in Threads : CallSave(t)
    \/ \E t \in Threads : CallStore(t)
    \/ \E t \in Threads : CallEnd(t)

SpecRace == InitRace /\ [][NextRace]_vars

\* ------------------------------------------- the dashboard is restarted
\* Environments a deployment can be restarted with: the discrete variables
\* as before, with the refresh token rotated, or unset.
RestartEnvs ==
    {Env(EnvUnset, "rtE", "cidE", "secE"),
     Env(EnvUnset, "rtE2", "cidE", "secE"),
     Env(EnvUnset, "", "", "")}

\* The process ends and start.py runs again with another environment: the
\* module globals of api/client.py are back at None, GOOGLE_TOKEN_JSON, if
\* set, is written over the token file, and what else is on disk stays.
Restart ==
    /\ phase = "serving"
    /\ \E e \in RestartEnvs \ {env} :
          /\ env' = e
          /\ tokenFile' = IF e.token_json.kind = "text" THEN e.token_json ELSE tokenFile
    /\ cached' = NoneObj
    /\ lastError' = NoneStr
    /\ memo' = <<>>
    /\ Forget("restart")
    /\ QueryIdle
    /\ BatchIdle
    /\ UNCHANGED <<phase, now, viewVars, callVars>>

\* A deployment configured with the discrete variables only and no token
\* file.
InitPersist ==
    /\ phase = "serving"
    /\ InitStore
    /\ NoFrame
    /\ env = Env(EnvUnset, "rtE", "cidE", "secE")
    /\ tokenFile = FileMissing

NextPersist ==
    \/ Acquire
    \/ GetAuthHeaders
    \/ Tick
    \/ Restart

SpecPersist == InitPersist /\ [][NextPersist]_vars

\* --------------------------------------------------- claims on the store
\* A step that ran _load_credentials.
Acquires == {"acquire", "get_auth_headers"}

\* The expiry instant a token-file object spells, as a set (empty if none).
FileExpiryInstants(obj) ==
    IF obj.expiry.fmt = "naive" THEN {obj.expiry.local}
    ELSE IF obj.expiry.fmt = "aware" THEN {obj.expiry.local - obj.expiry.offset}
    ELSE {}

\* The token file holds a JSON object.
FileHoldsObject(file) ==
    file.kind = "text" /\ ~file.ctrl /\ file.json.kind = "object"

\* C1: when the refresh of a stale record that carries a refresh token
\* fails, the call returns the stale record if it has an access token, and
\* Absent with the diagnostic recorded only if it has none.
C1_StaleRecordOnRefreshFailure ==
    call.path = "refresh_failed" =>
        IF Truthy(call.built.token)
        THEN ret = call.built
        ELSE ret = Absent /\ lastError = ErrRefresh

\* C5: _load_credentials never raises, and every Absent it returns comes
\* with a diagnostic.
C5_AcquireNeverRaises ==
    /\ ret.kind # "raised"
    /\ ret.kind = "absent" => Truthy(lastError)

\* The record a call would return: the cached one on a cache hit, else the
\* one built from the source.
Candidate == IF call.path = "cache_hit" THEN ret ELSE call.built
ExpiresWithinMargin(creds) ==
    /\ creds.kind = "creds"
    /\ creds.expiry # NoExpiry
    /\ creds.expiry[1].t - now < REFRESH_MARGIN

\* C6 as stated: whenever the record the call would return expires less
\* than 5 minutes from now, the call attempts a network refresh.
C6_RefreshWhenExpiringSoon ==
    (call.path # "none" /\ ExpiresWithinMargin(Candidate)) => call.netCalls >= 1

\* C6 amended: whenever the record the call would return expires less than
\* 5 minutes from now and carries a refresh token, the call attempts a
\* network refresh, whatever the cache held at the start.
C6_RefreshWhenExpiringSoonAndRenewable ==
    (call.path # "none" /\ ExpiresWithinMargin(Candidate)
        /\ Truthy(Candidate.refresh_token)) => call.netCalls >= 1

\* C6 witness: the cache held a stale record, the reloaded record has an
\* access token that expires within 5 minutes but has not yet, and a
\* refresh was attempted.
C6_Witness ==
    /\ call.cacheAtStart = "stale"
    /\ call.built.kind = "creds"
    /\ Truthy(call.built.token) /\ Truthy(call.built.refresh_token)
    /\ ExpiresWithinMargin(call.built)
    /\ call.built.expiry[1].t > now
    /\ call.netCalls = 1

\* C7: with a cached record that is not stale, the call returns that record,
\* reads neither the token file nor the environment, makes no network call,
\* writes no file and leaves the cache as it was.
C7_CacheHitNoIO ==
    [][(op' \in Acquires /\ cached.kind = "creds" /\ ~NeedsRefresh(cached, now)) =>
          /\ ret' = cached
          /\ cached' = cached
          /\ tokenFile' = tokenFile
          /\ call'.fileReads = 0 /\ call'.envReads = 0
          /\ call'.netCalls = 0 /\ call'.fileWrites = 0]_vars

\* C7 witness: a call answered from the cache.
C7_Witness ==
    op = "acquire" /\ call.path = "cache_hit" /\ ret.kind = "creds"

\* The token file holds a record with an access token whose expiry, if it
\* spells one, is at least 5 minutes after t.
FileValidFresh(file, t) ==
    /\ FileHoldsObject(file)
    /\ Truthy(file.json.token)
    /\ \A x \in FileExpiryInstants(file.json) : x - t >= REFRESH_MARGIN

\* C8 as stated: in every reachable state, if the token file holds a valid
\* record that is not stale, the call returns a record with the file's
\* access token and makes no network call.
C8_FreshFileWins ==
    [][(op' \in Acquires /\ FileValidFresh(tokenFile, now)) =>
          /\ ret'.kind = "creds"
          /\ ret'.token = tokenFile.json.token
          /\ call'.netCalls = 0]_vars

\* C8 amended: if the cache is empty or its record stale and the token file
\* holds a valid record that is not stale, the call returns a record with
\* the file's access token and makes no network call.
C8_FreshFileWinsOnCacheMiss ==
    [][(op' \in Acquires /\ FileValidFresh(tokenFile, now)
          /\ (cached.kind # "creds" \/ NeedsRefresh(cached, now))) =>
          /\ ret'.kind = "creds"
          /\ ret'.token = tokenFile.json.token
          /\ call'.netCalls = 0]_vars

\* C8 witness: after a stale cache, a record was loaded from a token file
\* that still holds it, without a network call.
C8_Witness ==
    /\ op = "acquire" /\ call.path = "loaded" /\ call.cacheAtStart = "stale"
    /\ FileValidFresh(tokenFile, now)
    /\ ret.kind = "creds" /\ ret.token = tokenFile.json.token

\* The token file yields data: it parses to something other than null.
FileYields(file) ==
    file.kind = "text" /\ ~file.ctrl /\ file.json.kind \in {"array", "object"}
\* GOOGLE_TOKEN_JSON yields data once control characters are stripped.
TokenJsonYields(e) ==
    e.token_json.kind = "text" /\ e.token_json.json.kind = "object"
DiscreteVarsSet(e) ==
    Truthy(e.refresh_token) /\ Truthy(e.client_id) /\ Truthy(e.client_secret)

C10_ControlCharactersStripped ==
    (/\ op = "acquire"
     /\ env.token_json.kind = "text" /\ env.token_json.ctrl
     /\ env.token_json.json.kind = "object"
     /\ ~DiscreteVarsSet(env)
     /\ tokenFile = env.token_json) =>
        /\ ret.kind = "creds"
        /\ ret.refresh_token = env.token_json.json.refresh_token

\* Neither GOOGLE_TOKEN_JSON nor any of the three discrete variables is set.
NoEnvSet(e) ==
    /\ e.token_json.kind = "unset"
    /\ ~Truthy(e.refresh_token) /\ ~Truthy(e.client_id) /\ ~Truthy(e.client_secret)

\* C11 as stated: whenever there is no token file and none of the
\* environment variables is set, get_credentials returns Absent and
\* get_last_error then returns a non-empty message.
C11_NoSourceAbsentWithDiagnostic ==
    [][(op' = "acquire" /\ tokenFile = FileMissing /\ NoEnvSet(env)) =>
          /\ ret' = Absent
          /\ Truthy(lastError')]_vars

\* C11 amended: when there is no token file, none of the environment
\* variables is set and the cache is empty or its record stale,
\* get_credentials returns Absent and get_last_error then returns a
\* non-empty message.
C11_NoSourceAbsentOnCacheMiss ==
    [][(op' = "acquire" /\ tokenFile = FileMissing /\ NoEnvSet(env)
          /\ (cached.kind # "creds" \/ NeedsRefresh(cached, now))) =>
          /\ ret' = Absent
          /\ Truthy(lastError')]_vars

\* C11 witness: get_credentials found neither a token file nor the
\* variables, returned Absent and left the diagnostic.
C11_Witness ==
    /\ op = "acquire" /\ call.path = "no_source"
    /\ tokenFile = FileMissing /\ NoEnvSet(env)
    /\ ret = Absent /\ lastError = ErrNoSource

\* The record came out of creds.refresh: only there is a naive expiry set.
IsRefreshedRecord(creds) ==
    creds.kind = "creds" /\ creds.expiry # NoExpiry /\ ~creds.expiry[1].aware

\* C20: when the token file holds what _save_credentials wrote for a
\* refreshed record and that record is loaded again on a cache miss, the
\* record built from the file has the same access token, the same refresh
\* token and the same expiry instant, the expiry stored without an offset
\* being read as UTC.
C20_SaveLoadRoundTrip ==
    [][(/\ op' \in Acquires
        /\ IsRefreshedRecord(cached) /\ NeedsRefresh(cached, now)
        /\ tokenFile = SaveData(cached)) =>
          /\ call'.source = "file"
          /\ call'.built.kind = "creds"
          /\ call'.built.token = cached.token
          /\ call'.built.refresh_token = cached.refresh_token
          /\ call'.built.expiry # NoExpiry
          /\ call'.built.expiry[1].t = cached.expiry[1].t
          /\ call'.built.expiry[1].aware]_vars

\* C20 witness: a record refreshed at 0 with a lifetime of 400 s was saved,
\* went stale in the cache and has been built again from the token file.
C20_Witness ==
    /\ op = "acquire" /\ call.cacheAtStart = "stale" /\ call.source = "file"
    /\ call.built.kind = "creds"
    /\ call.built.token = "tokR"
    /\ Truthy(call.built.refresh_token)
    /\ call.built.expiry = Datetime(400, TRUE)

\* C21: whenever get_credentials returns a record, _cached_creds holds
\* exactly that record when the call returns.
C21_ReturnedRecordIsCached ==
    (op \in Acquires /\ ret.kind = "creds") => cached = ret

\* C21 witness: a record just refreshed was returned and is in the cache.
C21_Witness ==
    /\ op = "acquire" /\ call.path = "refreshed"
    /\ ret.kind = "creds" /\ ret.token = "tokR"
    /\ cached = ret

\* C22: on a cache miss, when the token file's record has a refresh token
\* and a missing or unparseable expiry, the expiry is taken as absent and a
\* refresh is attempted before the record is returned, access token or not.
C22_NoExpiryForcesRefresh ==
    [][(/\ op' \in Acquires
        /\ cached.kind # "creds" \/ NeedsRefresh(cached, now)
        /\ FileHoldsObject(tokenFile)
        /\ tokenFile.json.expiry.fmt \in {"missing", "invalid"}
        /\ Truthy(tokenFile.json.refresh_token)) =>
          /\ call'.built.kind = "creds"
          /\ call'.built.expiry = NoExpiry
          /\ call'.netCalls >= 1]_vars

\* C23: every get_credentials call overwrites _last_error: after the call
\* the message is non-empty if and only if the call returned Absent,
\* whatever message an earlier call had left.
C23_DiagnosticOfLastCallOnly ==
    [][op' \in Acquires =>
          /\ Truthy(lastError') <=> ret' = Absent
          /\ ret'.kind = "creds" => lastError' = NoneStr]_vars

\* C23 witness: a call has returned Absent after a failed refresh and left
\* its message.
C23_Witness ==
    /\ op = "acquire" /\ call.path = "refresh_failed"
    /\ ret = Absent /\ lastError = ErrRefresh

\* C25: a call makes at most one refresh attempt; when it returns Absent
\* because the refresh failed it leaves _cached_creds and the token file as
\* they were; and the call that follows reads the source again and attempts
\* the refresh again.
C25_NoNegativeCaching ==
    [][op' \in Acquires =>
          /\ call'.netCalls <= 1
          /\ call'.path = "refresh_failed" =>
                /\ ret' = Absent
                /\ cached' = cached
                /\ tokenFile' = tokenFile
          /\ (op \in Acquires /\ call.path = "refresh_failed") =>
                /\ call'.fileReads = 1
                /\ call'.netCalls = 1]_vars

\* C25 witness: with a stale record in the cache, a call has failed to
\* refresh the record of the token file and returned Absent; the stale
\* record is still cached.
C25_Witness ==
    /\ op = "acquire" /\ call.path = "refresh_failed" /\ call.cacheAtStart = "stale"
    /\ ret = Absent /\ cached.kind = "creds"
    /\ FileHoldsObject(tokenFile)

\* ------------------------------------------- claims on concurrent calls
\* C26: with two calls under way at once, _cached_creds changes only when
\* one call stores its own object, whole, the object that call returns
\* (so the last store wins); a call that returns hands back Absent, the
\* cached object it found, or the object it built itself; and neither call
\* waits for the other.
C26_LastWriterWins ==
    [][/\ cached' # cached =>
             \E t \in Threads :
                /\ tpc[t] = "store" /\ tpc'[t] = "done"
                /\ cached' = tcreds[t]
                /\ tret'[t] = tcreds[t]
       /\ \A t \in Threads :
             (tpc[t] # "done" /\ tpc'[t] = "done" /\ tret'[t].kind = "creds") =>
                tret'[t] = cached'
       /\ \A t \in Threads :
             tpc[t] \in {"load", "refresh", "save", "store"} =>
                ENABLED (CallLoad(t) \/ CallRefresh(t) \/ CallSave(t) \/ CallStore(t))]_vars

\* C26 witness: both calls found a stale cache, each made its own refresh
\* request, both have returned, and the cache holds the record of the call
\* of thread 2, which differs from the one thread 1 returned.
C26_Witness ==
    /\ tpc[1] = "done" /\ tpc[2] = "done"
    /\ tnet[1] = 1 /\ tnet[2] = 1
    /\ tret[1].kind = "creds" /\ tret[2].kind = "creds"
    /\ tret[1] # tret[2]
    /\ cached = tret[2]

\* ------------------------------------------------ claims on persistence
\* The token file holds the record creds: its tokens, its client and its
\* expiry instant.
FileHoldsRecord(file, creds) ==
    /\ FileHoldsObject(file)
    /\ file.json.token = creds.token
    /\ file.json.refresh_token = creds.refresh_token
    /\ file.json.client_id = creds.client_id
    /\ file.json.client_secret = creds.client_secret
    /\ FileExpiryInstants(file.json) = {creds.expiry[1].t}

\* A call leaves the environment alone, and on a cache miss with a record
\* in the token file it builds its record from the file, not from the
\* variables.
FileBeforeVariables ==
    /\ env' = env
    /\ (/\ cached.kind # "creds" \/ NeedsRefresh(cached, now)
        /\ FileHoldsObject(tokenFile)) =>
          /\ call'.source = "file"
          /\ call'.envReads = 0
          /\ call'.built.refresh_token = tokenFile.json.refresh_token

C24_StorageRefreshesExpired ==
    [][(/\ op' = "storage_load"
        /\ FileHoldsObject(tokenFile)
        /\ Truthy(tokenFile.json.token) /\ Truthy(tokenFile.json.refresh_token)
        /\ \E x \in FileExpiryInstants(tokenFile.json) : x <= now) =>
          /\ call'.netCalls >= 1
          /\ ret'.kind = "creds" => ret'.token # tokenFile.json.token]_vars

\* ------------------------------------------- claims on the REST operations
\* C2: a query returns at most row_limit rows in total, whatever the server
\* sends (more rows per page than asked for, a row_limit above the page cap
\* that is no multiple of it).
C2_RowLimitBoundsTotal ==
    (op = "query" /\ qpc = "idle" /\ opResult.kind = "frame") =>
        TotalRows(opResult.pages) <= rowLimit

\* What each operation returns when it has nothing to report.
RestOps == {"query", "list_sitemaps", "submit_sitemap", "delete_sitemap", "inspect_url"}
EmptyResultOf(name) ==
    CASE name = "query" -> FrameResult(<<>>)
      [] name = "list_sitemaps" -> ListResult(<<>>)
      [] name \in {"submit_sitemap", "delete_sitemap"} -> BoolResult(FALSE)
      [] name = "inspect_url" -> DictResult("empty")

\* C3: whenever get_auth_headers returns None, the REST operation that
\* asked returns its empty or false result and sends no HTTP request.
C3_NoHeadersNoRequest ==
    (op \in RestOps /\ hdr.kind = "absent") =>
        /\ httpCalls = 0
        /\ qpc = "idle"
        /\ opResult = EmptyResultOf(op)

\* C3 witness: submit_sitemap ran without headers.
C3_Witness ==
    /\ op = "submit_sitemap" /\ hdr.kind = "absent"
    /\ ret.kind = "absent"
    /\ opResult = BoolResult(FALSE) /\ httpCalls = 0

\* C4: get_auth_headers never raises; it returns None when
\* _load_credentials returns None or a record whose access token is empty
\* or missing, and {"Authorization": "Bearer <token>"} otherwise.  (Calls in
\* which _load_credentials itself raised are left to C5.)
C4_HeadersAbsentOrBearer ==
    (op = "get_auth_headers" /\ ret.kind # "raised") =>
        /\ hdr.kind # "raised"
        /\ IF ret.kind = "absent" THEN hdr = NoHeaders
           ELSE IF ~Truthy(ret.token) THEN hdr = NoHeaders
           ELSE hdr = Bearer(ret.token)

\* C12: in a query, each POST is preceded by its own get_auth_headers call
\* (k calls for k pages), so the Authorization header a page is sent with
\* is the one the provider returns at the time of that request.
C12_HeadersFetchedPerPage ==
    [][(qpc = "loop" /\ httpCalls' = httpCalls + 1) =>
          /\ hdrCalls' = httpCalls'
          /\ \E net \in NetChoices(cached, tokenFile, env, now) :
                headers = AuthHeaders(LoadCredentials(cached, tokenFile, env, now, net))]_vars

\* The number of rows the first page of the running or finished query
\* brought (0 if none were kept).
FirstPageLen == IF allRows = <<>> THEN 0 ELSE allRows[1].len

\* C13: if the first page of a query brings fewer rows than the page size
\* min(row_limit, 25000) asked for, zero rows included, the query has sent
\* exactly one HTTP request and returns exactly the rows of that page.
C13_ShortFirstPageEndsQuery ==
    (/\ op = "query" /\ httpCalls >= 1 /\ opResult.kind # "raised"
     /\ FirstPageLen < Min(rowLimit, MAX_ROWS_PER_REQUEST)) =>
        /\ qpc = "idle"
        /\ httpCalls = 1
        /\ Len(allRows) <= 1
        /\ opResult = FrameResult(allRows)

\* C13 witness: a query asking for pages of 25000 rows got 10 rows on its
\* first page and returned them after one request.
C13_Witness ==
    /\ op = "query" /\ qpc = "idle" /\ rowLimit = 30000
    /\ httpCalls = 1
    /\ opResult = FrameResult(<<Page(0, 10)>>)

\* C14: when page n of a query is answered with a status other than 200,
\* the loop ends with that request (no retry, no page n+1) and the query
\* returns, without raising, exactly the rows of pages 1..n-1.
C14_BadStatusEndsQuery ==
    [][(/\ qpc = "loop" /\ httpCalls' = httpCalls + 1
        /\ lastReply'.kind = "http" /\ lastReply'.status # 200) =>
          /\ qpc' = "idle"
          /\ Len(allRows) = httpCalls
          /\ allRows' = allRows
          /\ opResult' = FrameResult(allRows)]_vars

\* C14 witness: the second page of a query was answered with 403 and the
\* query returned the 25000 rows of its first page.
C14_Witness ==
    /\ op = "query" /\ qpc = "idle" /\ httpCalls = 2
    /\ lastReply.kind = "http" /\ lastReply.status = 403
    /\ opResult = FrameResult(<<Page(0, 25000)>>)

\* The number of requests the claim allows a query with this row_limit:
\* ceil(row_limit / min(row_limit, 25000)) from 1 on, and one below.
MaxRequests(limit) ==
    IF limit >= 1
    THEN LET size == Min(limit, MAX_ROWS_PER_REQUEST)
         IN (limit + size - 1) \div size
    ELSE 1

\* C28: a query posts at most ceil(row_limit / min(row_limit, 25000))
\* requests when row_limit >= 1 and at most one otherwise, whatever the
\* replies are; while the loop is going to post again it is still below
\* that number.
C28_RequestsBounded ==
    op = "query" =>
        /\ httpCalls <= MaxRequests(rowLimit)
        /\ qpc = "loop" => httpCalls < MaxRequests(rowLimit)

\* C28 witness: a query for 60000 rows has ended after its third request,
\* each of the three having brought a full page.
C28_Witness ==
    /\ op = "query" /\ qpc = "idle" /\ rowLimit = 60000
    /\ httpCalls = 3 /\ Len(allRows) = 3
    /\ opResult.kind = "frame"

\* C28 second case: a query with a row_limit of zero or less has ended after
\* one request that brought rows.
C28_WitnessNoLimit ==
    /\ op = "query" /\ qpc = "idle" /\ rowLimit <= 0
    /\ httpCalls = 1 /\ Len(allRows) = 1

\* The pages follow one another in the server's list: the first starts at
\* row 0 and each later one where the one before it ended.
RECURSIVE Contiguous(_, _)
Contiguous(pages, from) ==
    \/ pages = <<>>
    \/ /\ pages[1].start = from
       /\ Contiguous(Tail(pages), from + pages[1].len)

\* C29: in a query the request about to be made has startRow equal to the
\* number of rows received so far (0 for the first), which is the number
\* of rows accumulated; so the pages accumulated, each being the rows the
\* server lists from its startRow on, make up a prefix of the server's
\* list, no row twice and none skipped, and that is what is returned.
C29_PagesArePrefix ==
    op = "query" =>
        /\ startRow = TotalRows(allRows)
        /\ Contiguous(allRows, 0)
        /\ \A k \in DOMAIN allRows : allRows[k].len >= 1
        /\ httpCalls = 0 => startRow = 0
        /\ opResult.kind = "frame" =>
              /\ Contiguous(opResult.pages, 0)
              /\ TotalRows(opResult.pages) = startRow

\* C29 witness: a query for 60000 rows has returned three pages, asked for
\* at rows 0, 25000 and 50000.
C29_Witness ==
    /\ op = "query" /\ qpc = "idle" /\ opResult.kind = "frame"
    /\ Len(opResult.pages) = 3
    /\ opResult.pages[2].start = 25000
    /\ opResult.pages[3].start = 50000

\* ----------------------------------------- claims on batch_inspect_urls
\* The inspection whose outcome is on record failed: get_auth_headers
\* raised, the POST raised, its status was not 200 or its body could not be
\* decoded.  (To be read in the state after the inspection.)
InspectionFailed ==
    \/ hdr.kind = "raised"
    \/ /\ hdr.kind = "headers"
       /\ \/ lastReply.kind = "transport_error"
          \/ lastReply.status # 200
          \/ lastReply.body = "undecodable"

\* C15: every URL of the list gets one item, appended in input order; the
\* item of a URL whose inspection failed has an error and no result, the
\* item of any other URL a result and no error; after a failure the loop
\* goes on to the next URL, and after the last URL the N items are returned.
C15_OneItemPerUrlInOrder ==
    [][(bpc = "loop" /\ idx' = idx + 1) =>
          /\ Len(results') = idx'
          /\ SubSeq(results', 1, idx) = results
          /\ results'[idx'].url = urls[idx']
          /\ IF InspectionFailed'
             THEN /\ results'[idx'].result = NoneObj
                  /\ results'[idx'].error # NoneStr
             ELSE /\ results'[idx'].result.kind = "dict"
                  /\ results'[idx'].error = NoneStr
          /\ idx' < total => bpc' = "loop"
          /\ idx' = total =>
                /\ bpc' = "idle"
                /\ Len(results') = Len(urls)
                /\ opResult' = ListResult(results')]_vars

\* C15 witness: of three URLs the second failed; the batch returned three
\* items, the second with an error, the first and third with results.
C15_Witness ==
    /\ op = "batch_inspect_urls" /\ bpc = "idle" /\ total = 3
    /\ opResult = ListResult(results) /\ Len(results) = 3
    /\ results[1].error = NoneStr /\ results[1].result = DictResult("inspectionResult")
    /\ results[2].error = "API error" /\ results[2].result = NoneObj
    /\ results[3].error = NoneStr /\ results[3].result = DictResult("inspectionResult")

\* The places in events where the batch did what.
EventsAt(what) == {j \in 1..Len(events) : events[j].ev = what}
\* Event j lies after the inspection of URL k and before that of URL k + 1.
Between(j, k) ==
    /\ \E a \in EventsAt("inspect") : events[a].k = k /\ a < j
    /\ \A b \in EventsAt("inspect") : events[b].k = k + 1 => j < b

\* C16: a batch over N URLs sleeps max(N-1, 0) times: once between the
\* inspections of URL i and URL i+1 for every i < N, failed or not, and
\* neither before the first URL nor after the last.
C16_SleepsBetweenUrls ==
    op = "batch_inspect_urls" =>
        /\ \A j \in EventsAt("sleep") :
              /\ events[j].k \in 1..(total - 1)
              /\ Between(j, events[j].k)
        /\ \A i \in 1..(total - 1) :
              i <= idx => Cardinality({j \in EventsAt("sleep") : events[j].k = i}) = 1
        /\ bpc = "idle" =>
              Cardinality(EventsAt("sleep")) = (IF total >= 1 THEN total - 1 ELSE 0)

\* C16 witness: a batch of three URLs, the first of which failed, has
\* returned after two sleeps.
C16_Witness ==
    /\ op = "batch_inspect_urls" /\ bpc = "idle" /\ total = 3
    /\ results[1].error # NoneStr
    /\ Cardinality(EventsAt("sleep")) = 2

\* C17: a batch with a progress callback calls it once per URL, with
\* (k, N) for k = 1..N in this order; call k comes after the item of URL k
\* is recorded and before inspect_url is called for URL k+1.
C17_ProgressAfterEachUrl ==
    (op = "batch_inspect_urls" /\ hasCallback) =>
        /\ Cardinality(EventsAt("progress")) = idx
        /\ \A k \in 1..idx :
              \E j \in EventsAt("progress") :
                 /\ events[j].k = k /\ events[j].n = total
                 /\ \E r \in EventsAt("record") : events[r].k = k /\ r < j
                 /\ Between(j, k)
        /\ \A i, j \in EventsAt("progress") : i < j => events[i].k < events[j].k
        /\ bpc = "idle" => idx = total

\* C17 witness: a batch of three URLs with a callback has returned; the
\* callback was called three times and the second URL had failed.
C17_Witness ==
    /\ op = "batch_inspect_urls" /\ bpc = "idle" /\ total = 3 /\ hasCallback
    /\ Cardinality(EventsAt("progress")) = 3
    /\ results[2].error # NoneStr

\* ------------------------------------ more claims on the REST operations
\* The reply on record is a failure of the outbound call: the call itself
\* failed, the status is not 200, or the body cannot be decoded.
OutboundFailure ==
    \/ lastReply.kind = "transport_error"
    \/ /\ lastReply.kind = "http"
       /\ (lastReply.status # 200 \/ lastReply.body = "undecodable")

\* C18: whenever an outbound call of query_search_analytics or
\* list_sitemaps fails (transport failure, status other than 200,
\* undecodable body), the operation does not raise: the query returns the
\* rows it already has and list_sitemaps the empty list.
C18_FailuresDegrade ==
    (op \in {"query", "list_sitemaps"} /\ OutboundFailure) =>
        /\ qpc = "idle"
        /\ opResult.kind # "raised"
        /\ op = "query" => opResult = FrameResult(allRows)
        /\ op = "list_sitemaps" => opResult = ListResult(<<>>)

\* The operations that change the property's sitemaps.
Mutations == {"submit_sitemap", "delete_sitemap"}

\* What C30 says of the value returned and of the call without headers:
\* True exactly on a reply of status 200 or 204, and with absent headers
\* False, nothing sent and the memoized results as they were.
MutationReports ==
    op' \in Mutations =>
        /\ opResult'.kind = "bool" =>
              (opResult'.ok <=> /\ httpCalls' = 1
                                /\ lastReply'.kind = "http"
                                /\ lastReply'.status \in {200, 204})
        /\ hdr'.kind = "absent" =>
              /\ opResult' = BoolResult(FALSE)
              /\ httpCalls' = 0
              /\ memo' = memo

\* C30: submit_sitemap and delete_sitemap return True exactly when the
\* status is 200 or 204; after every request they have sent, whatever came
\* of it, the memoized results are gone, so that the list_sitemaps call that
\* follows does not answer from them; with absent headers they return
\* False and leave the memoized results alone.
C30_SentMutationClearsMemo ==
    [][/\ MutationReports
       /\ (op' \in Mutations /\ httpCalls' = 1) => memo' = <<>>
       /\ (op \in Mutations /\ httpCalls = 1 /\ op' = "list_sitemaps") =>
             hdrCalls' = 1]_vars

\* ------------------------------------------- claims on the ranked views
\* C19: get_top_queries returns the rows of the query with the clicks
\* descending, and rows with equal clicks in the order the server returned
\* them.
C19_RankedByClicksStable ==
    op = "get_top_queries" =>
        /\ Len(ranked) = Len(df)
        /\ \A r \in 1..Len(df) : \E i \in 1..Len(ranked) : ranked[i] = df[r]
        /\ \A i, j \in 1..Len(ranked) :
              i < j =>
                 \/ ranked[i].clicks > ranked[j].clicks
                 \/ ranked[i].clicks = ranked[j].clicks /\ ranked[i].key < ranked[j].key

====
